---- MODULE Spec2Model ----
(***************************************************************************)
(* Quality-code pipeline of hydrobot: Processor.quality_encoder with its   *)
(* frame merge (_apply_quality), the evaluator helpers it calls and the    *)
(* cross-channel minimum merge utils.compare_two_qc_take_min, the rainfall *)
(* ramp and points (utils.check_data_ramp_and_quality, rainfall.py), the   *)
(* quality filters and utils.change_blocks.                                *)
(*                                                                         *)
(* Time is counted in ticks of TickSeconds seconds.  A pandas Series or    *)
(* DataFrame with an ascending unique DatetimeIndex is a function whose    *)
(* DOMAIN is its index.  np.nan is NaN; a missing string cell is NoText.   *)
(***************************************************************************)
EXTENDS Integers, FiniteSets, Sequences, TLC

\* quality_data is the timeline; prev_quality, changed_data and replace record
\* the latest call of _apply_quality: the timeline it found and its arguments.
\* args and ret are the arguments and the return value of a helper function
\* that is called on its own, locals the local variables of one that runs a
\* loop.
VARIABLES pc, standard_data, check_data, quality_data, from_date, to_date,
          gap_limit, max_qc, interval_dict,
          prev_quality, changed_data, replace,
          qc_series_1, qc_series_2, minimised_qc_series,
          args, ret, locals

vars == <<pc, standard_data, check_data, quality_data, from_date, to_date,
          gap_limit, max_qc, interval_dict,
          prev_quality, changed_data, replace,
          qc_series_1, qc_series_2, minimised_qc_series,
          args, ret, locals>>

\* ---------------------------------------------------------------- bounds
MaxT == 3
MaxChecks == 2
MaxQcT == 2
MaxApplyT == 1
TickSeconds == 3600
MaxDatum == 12
MaxGapT == 5
MaxGapLength == 2
MaxNearT == 3
MaxRampT == 3
MaxRampChecks == 3
MaxYears == 1
MaxRfChecks == 2
MaxPointT == 1
MaxOpT == 2
MaxFilterT == 3
MaxBlockT == 2

\* ------------------------------------------------------- program constants
DefaultGapLimit == 10800
qc_500_limit == 10
qc_600_limit == 2

NaN == 0 - 1
Inf == 1000000
Raise == 0 - 2
NoText == "NaN"

Times == 0..MaxT

\* --------------------------------------------------------------- helpers
Min(S) == CHOOSE x \in S : \A y \in S : x <= y
Max(S) == CHOOSE x \in S : \A y \in S : x >= y
Abs(x) == IF x < 0 THEN 0 - x ELSE x
EmptyFrame == [t \in {} |-> NaN]

\* Row of a quality frame: columns Value, Code, Details.
Row(v, c, d) == [Value |-> v, Code |-> c, Details |-> d]

\* The code in force at instant t: Value of the latest record at or before t.
InForceRow(frame, t) ==
    LET p == {u \in DOMAIN frame : u <= t}
    IN  IF p = {} THEN Row(NaN, NoText, NoText) ELSE frame[Max(p)]
InForce(frame, t) == InForceRow(frame, t).Value

\* ------------------------------------------------------ tolerance evaluator
find_qc(base_datum, check_datum) ==
    LET diff == Abs(base_datum - check_datum)
    IN  IF diff < qc_600_limit THEN 600
        ELSE IF diff < qc_500_limit THEN 500
        ELSE 400

\* A flat rule whose comparisons include the limit.
Measurement_find_qc_inclusive(self, base_datum, check_datum) ==
    LET diff == Abs(base_datum - check_datum)
    IN  IF diff <= self.qc_600_limit THEN 600
        ELSE IF diff <= self.qc_500_limit THEN 500
        ELSE 400

\* Measurement.find_qc of the evaluator self; the evaluator's
\* constant_check_shift is not read.
Measurement_find_qc(self, base_datum, check_datum) ==
    LET diff == Abs(base_datum - check_datum)
    IN  IF diff < self.qc_600_limit THEN 600
        ELSE IF diff < self.qc_500_limit THEN 500
        ELSE 400

\* diff < percent for diff = np.abs(base_datum / check_datum - 1) * 100, in
\* exact arithmetic.  A division by zero gives inf or nan, which is below no
\* limit.
percent_diff_below(base_datum, check_datum, percent) ==
    /\ check_datum # 0
    /\ Abs(base_datum - check_datum) * 100 < percent * Abs(check_datum)

\* A two-level rule that compares the absolute difference whatever the
\* magnitude of the base value.
TwoLevelMeasurement_find_qc_flat(self, base_datum, check_datum) ==
    LET diff == Abs(base_datum - check_datum)
    IN  IF diff < self.qc_600_limit THEN 600
        ELSE IF diff < self.qc_500_limit THEN 500
        ELSE 400

TwoLevelMeasurement_find_qc(self, base_datum, check_datum) ==
    IF base_datum < self.limit_percent_threshold
    THEN LET diff == Abs(base_datum - check_datum)
         IN  IF diff < self.qc_600_limit THEN 600
             ELSE IF diff < self.qc_500_limit THEN 500
             ELSE 400
    ELSE IF percent_diff_below(base_datum, check_datum, self.qc_600_percent)
         THEN 600
    ELSE IF percent_diff_below(base_datum, check_datum, self.qc_500_percent)
         THEN 500
    ELSE 400

\* evaluator.find_qc(base_datum, check_datum), dispatched on the class.
evaluator_find_qc(self, base_datum, check_datum) ==
    IF self.class = "TwoLevelMeasurement"
    THEN TwoLevelMeasurement_find_qc(self, base_datum, check_datum)
    ELSE Measurement_find_qc(self, base_datum, check_datum)

\* ------------------------------------------------------------ gap engine
\* Positions 1..n of a series in index order.
IndexSeq(S) ==
    LET RECURSIVE build(_)
        build(R) == IF R = {} THEN <<>> ELSE <<Min(R)>> \o build(R \ {Min(R)})
    IN  build(S)

\* The list of (start label, length) of the runs of NaN, in index order.
gap_finder(data) ==
    LET idx   == IndexSeq(DOMAIN data)
        n     == Len(idx)
        isnan(i) == data[idx[i]] = NaN
        \* np.flatnonzero(np.r_[True, np.diff(isnan) != 0, True]) without the
        \* closing sentinel: the positions where a run begins, ascending
        idx0  == {i \in 1..n : i = 1 \/ isnan(i) # isnan(i - 1)}
        count(i) == Min({j \in (idx0 \cup {n + 1}) : j > i}) - i
        \* idx[valid_mask]: a boolean mask keeps the order of the positions
        out_idx == IndexSeq({j \in idx0 : isnan(j)})
    IN  [k \in 1..Len(out_idx) |-> <<idx[out_idx[k]], count(out_idx[k])>>]

\* data.iloc[idx] raises IndexError for a series without rows: idx is [0].
gap_finder_raises(data) == DOMAIN data = {}

\* Gap after gap, the rows of a gap of at most gap_length rows are masked
\* out of the series as it then stands.
small_gap_closer(series, gap_length) ==
    LET gaps == gap_finder(series)
        RECURSIVE loop(_, _)
        loop(s, k) ==
            IF k > Len(gaps) THEN s
            ELSE IF gaps[k][2] <= gap_length
            THEN LET idx  == IndexSeq(DOMAIN s)
                     loc  == CHOOSE i \in 1..Len(idx) : idx[i] = gaps[k][1]
                     last == Min({loc + gaps[k][2] - 1, Len(idx)})
                     rows == {idx[i] : i \in loc..last}
                 IN  loop([t \in DOMAIN s \ rows |-> s[t]], k + 1)
            ELSE loop(s, k + 1)
    IN  loop(series, 1)

\* ------------------------------------------------------------ time matcher
\* A nearest lookup that resolves a tie toward the earlier label.
get_indexer_nearest_earlier(index, dt) ==
    LET left  == {t \in index : t <= dt}
        right == {t \in index : t >= dt}
        leftT == IF left = {} THEN Max(index) ELSE Max(left)
    IN  IF right = {} THEN leftT
        ELSE IF Abs(dt - leftT) <= Abs(Min(right) - dt) THEN leftT
        ELSE Min(right)

get_indexer_nearest(index, dt) ==
    LET left  == {t \in index : t <= dt}
        right == {t \in index : t >= dt}
        \* an unmatched pad lookup is position -1, which reads the last label
        leftT == IF left = {} THEN Max(index) ELSE Max(left)
    IN  IF right = {} THEN leftT
        ELSE IF Abs(dt - leftT) < Abs(Min(right) - dt) THEN leftT
        ELSE Min(right)

\* The exception class find_nearest_time raises, "none" when it returns.
find_nearest_time_error(series, dt) ==
    IF DOMAIN series = {} THEN "IndexError"
    ELSE IF dt < Min(DOMAIN series) \/ dt > Max(DOMAIN series) THEN "Exception"
    ELSE "none"

find_nearest_time(series, dt) ==
    IF find_nearest_time_error(series, dt) # "none" THEN Raise
    ELSE get_indexer_nearest(DOMAIN series, dt)

\* The exception class find_nearest_valid_time raises, "none" when it
\* returns: the range check, then the lookup in the index without NaN rows,
\* which fails on position -1 when no row is left.
find_nearest_valid_time_error(series, dt) ==
    IF DOMAIN series = {} THEN "IndexError"
    ELSE IF dt < Min(DOMAIN series) \/ dt > Max(DOMAIN series) THEN "Exception"
    ELSE IF \A t \in DOMAIN series : series[t] = NaN THEN "IndexError"
    ELSE "none"

\* A valid-time lookup that does not drop the NaN rows.
find_nearest_valid_time_keeps_nan(series, dt) ==
    IF find_nearest_time_error(series, dt) # "none" THEN Raise
    ELSE get_indexer_nearest(DOMAIN series, dt)

find_nearest_valid_time(series, dt) ==
    LET idx == DOMAIN series
    IN  IF idx = {} THEN Raise
        ELSE IF dt < Min(idx) \/ dt > Max(idx) THEN Raise
        ELSE LET valid == {t \in idx : series[t] # NaN}
             IN  IF valid = {} THEN Raise
                 ELSE get_indexer_nearest(valid, dt)

\* ------------------------------------------------------- base evaluation
\* Reason and detail texts of a QualityRecord.
ChkRow(v) == Row(v, "CHK", "Check data quality code")

\* The checks flagged usable for QC: check_data[check_data["QC"]]["Value"].
qc_checks(checks) ==
    LET keep == {t \in DOMAIN checks : checks[t].QC}
    IN  [t \in keep |-> checks[t].Value]

\* The code of one check point, Raise when the time matcher raises.
check_qc_value(series, check_time, check_value, limit) ==
    LET adjusted_time == find_nearest_valid_time(series, check_time)
    IN  IF adjusted_time = Raise THEN Raise
        ELSE IF Abs((adjusted_time - check_time) * TickSeconds) < limit
             THEN find_qc(series[adjusted_time], check_value)
        ELSE 200

\* find_nearest_valid_time raises for some check: the exception propagates.
check_raises(series, check_series, limit) ==
    \E c \in DOMAIN check_series :
        check_qc_value(series, c, check_series[c], limit) = Raise

\* One record per check, keyed by the check's own timestamp.
check_data_quality_code(series, check_series, limit) ==
    [c \in DOMAIN check_series |->
        ChkRow(check_qc_value(series, c, check_series[c], limit))]

\* ------------------------------------------------------------ frame merge
\* Series.fillna: the old cell when it is not null, else the new one.
fillna(old, new, null) == IF old # null THEN old ELSE new

\* Cell of a frame at a timestamp of the outer join; null where absent.
Cell(frame, t, col) ==
    IF t \in DOMAIN frame THEN frame[t][col]
    ELSE IF col = "Value" THEN NaN ELSE NoText

\* The index of a left join: timestamps of the candidate alone are lost.
merge_index_left(old, new) == DOMAIN old

\* Index of quality_data.merge(changed_data, how="outer", ...).
merge_index(old, new) == DOMAIN old \cup DOMAIN new

\* DataFrame.combine_first: a null cell of the frame is patched from other.
combine_first(frame, other) ==
    [t \in DOMAIN frame \cup DOMAIN other |->
        Row(fillna(Cell(frame, t, "Value"), Cell(other, t, "Value"), NaN),
            fillna(Cell(frame, t, "Code"), Cell(other, t, "Code"), NoText),
            fillna(Cell(frame, t, "Details"), Cell(other, t, "Details"), NoText))]

\* A merge whose fillna operands are swapped: the candidate's cell wins
\* wherever it is set.
apply_quality_new_wins(old, changed, rep) ==
    IF rep THEN changed
    ELSE LET merged_df ==
               [t \in merge_index(old, changed) |->
                  Row(fillna(Cell(changed, t, "Value"), Cell(old, t, "Value"), NaN),
                      fillna(Cell(changed, t, "Code"), Cell(old, t, "Code"), NoText),
                      fillna(Cell(changed, t, "Details"), Cell(old, t, "Details"),
                             NoText))]
         IN  combine_first(merged_df, old)

\* A merge that coalesces whole rows instead of cells: a row of the existing
\* frame is kept as it is, nulls included.
apply_quality_rowwise(old, changed, rep) ==
    IF rep THEN changed
    ELSE [t \in DOMAIN old \cup DOMAIN changed |->
            IF t \in DOMAIN old THEN old[t] ELSE changed[t]]

\* A merge that always takes the candidate frame for the timeline.
apply_quality_always_replaces(old, changed, rep) == changed

apply_quality(old, changed, rep) ==
    IF rep THEN changed
    ELSE LET merged_df ==
               [t \in merge_index(old, changed) |->
                  Row(fillna(Cell(old, t, "Value"),
                             Cell(changed, t, "Value"), NaN),
                      fillna(Cell(old, t, "Code"),
                             Cell(changed, t, "Code"), NoText),
                      fillna(Cell(old, t, "Details"),
                             Cell(changed, t, "Details"), NoText))]
         IN  combine_first(merged_df, old)

\* ------------------------------------------ staleness, marking and ceiling
\* The check in force at t: the latest check at or before t (Raise if none).
last_check(check_series, t) ==
    LET p == {c \in DOMAIN check_series : c <= t}
    IN  IF p = {} THEN Raise ELSE Max(p)

\* Instants at which the check at c is older than max_interval and still the
\* most recent one.
overdue_span(check_series, c, max_interval) ==
    {t \in Times : t >= c + max_interval /\ last_check(check_series, t) = c}

ClampValue(v, cap) == IF v # NaN /\ cap # NaN /\ v > cap THEN cap ELSE v

\* One threshold of the staleness table: a record opens every overdue span
\* with the in-force code clamped to the cap, records inside it are clamped.
single_downgrade_out_of_validation(qc_frame, check_series, max_interval, cap) ==
    LET due  == {c + max_interval : c \in
                   {k \in DOMAIN check_series :
                       overdue_span(check_series, k, max_interval) # {}}}
        span == UNION {overdue_span(check_series, c, max_interval) :
                          c \in DOMAIN check_series}
    IN  [t \in DOMAIN qc_frame \cup due |->
            IF t \in DOMAIN qc_frame
            THEN IF t \in span
                 THEN [qc_frame[t] EXCEPT !.Value = ClampValue(@, cap)]
                 ELSE qc_frame[t]
            ELSE Row(IF InForce(qc_frame, t) = NaN THEN cap
                     ELSE ClampValue(InForce(qc_frame, t), cap),
                     "OOV", "Out of validation")]

\* The thresholds are applied from the shortest to the longest, each to the
\* frame the previous one produced.
bulk_downgrade_out_of_validation(qc_frame, check_series, table) ==
    LET RECURSIVE go(_, _)
        go(frame, keys) ==
            IF keys = {} THEN frame
            ELSE go(single_downgrade_out_of_validation(
                        frame, check_series, Min(keys), table[Min(keys)]),
                    keys \ {Min(keys)})
    IN  go(qc_frame, DOMAIN table)

\* The gaps of the series that are longer than limit rows.
long_gaps(series, limit) ==
    LET gaps == gap_finder(series)
    IN  {gaps[k] : k \in {i \in 1..Len(gaps) : gaps[i][2] > limit}}

\* Index labels of the rows of a gap <<start, length>>.
gap_rows(series, g) ==
    LET idx == IndexSeq(DOMAIN series)
        pos == CHOOSE i \in 1..Len(idx) : idx[i] = g[1]
    IN  {idx[i] : i \in pos..(pos + g[2] - 1)}

\* The first row after the gap, as a set: empty when the gap ends the series.
gap_end(series, g) ==
    LET idx == IndexSeq(DOMAIN series)
        pos == CHOOSE i \in 1..Len(idx) : idx[i] = g[1]
    IN  IF pos + g[2] <= Len(idx) THEN {idx[pos + g[2]]} ELSE {}

GapRow == Row(100, "GAP", "Missing data amounting to more than gap_limit")

\* A marking that keeps the records inside a gap.
missing_data_quality_code_keeps_inside(series, qc_frame, limit) ==
    LET gaps    == long_gaps(series, limit)
        starts  == {g[1] : g \in gaps}
        ends    == {t \in UNION {gap_end(series, g) : g \in gaps} :
                       InForce(qc_frame, t) # NaN}
    IN  [t \in (DOMAIN qc_frame \cup starts) \cup ends |->
            IF t \in starts THEN GapRow
            ELSE IF t \in DOMAIN qc_frame THEN qc_frame[t]
            ELSE InForceRow(qc_frame, t)]

missing_data_quality_code(series, qc_frame, limit) ==
    LET gaps    == long_gaps(series, limit)
        starts  == {g[1] : g \in gaps}
        inside  == UNION {gap_rows(series, g) : g \in gaps}
        ends    == {t \in UNION {gap_end(series, g) : g \in gaps} :
                       InForce(qc_frame, t) # NaN}
    IN  [t \in ((DOMAIN qc_frame \ inside) \cup starts) \cup ends |->
            IF t \in starts THEN GapRow
            ELSE IF t \in DOMAIN qc_frame THEN qc_frame[t]
            ELSE InForceRow(qc_frame, t)]

max_qc_limiter(qc_frame, cap) ==
    [t \in DOMAIN qc_frame |->
        [qc_frame[t] EXCEPT !.Value = ClampValue(@, cap)]]

\* ------------------------------------------------ cross-channel minimum
\* reindex without method="ffill": NaN at every label the series lacks.
reindex_exact(series, index) ==
    [t \in index |-> IF t \in DOMAIN series THEN series[t] ELSE NaN]

\* Series.reindex(index, method="ffill"): the value of the latest label at or
\* before each new label, NaN where there is none.
reindex_ffill(series, index) ==
    [t \in index |->
        LET p == {u \in DOMAIN series : u <= t}
        IN  IF p = {} THEN NaN ELSE series[Max(p)]]

replace_nan_inf(series) ==
    [t \in DOMAIN series |-> IF series[t] = NaN THEN Inf ELSE series[t]]

\* Takes the first series wherever it has a value, the second elsewhere.
np_minimum_first(x, y) == [t \in DOMAIN x |-> IF x[t] # Inf THEN x[t] ELSE y[t]]

np_minimum(x, y) == [t \in DOMAIN x |-> IF x[t] <= y[t] THEN x[t] ELSE y[t]]

\* drop_duplicates in place of the shift comparison: a row is dropped when
\* its code occurred anywhere before it.
drop_duplicates(series) ==
    LET keep == {t \in DOMAIN series :
                    ~ \E u \in DOMAIN series : u < t /\ series[u] = series[t]}
    IN  [t \in keep |-> series[t]]

\* series.loc[series.shift() != series]: a row is kept when it is the first
\* row or differs from the row before it.
drop_repeats(series) ==
    LET keep == {t \in DOMAIN series :
                    LET p == {u \in DOMAIN series : u < t}
                    IN  p = {} \/ series[Max(p)] # series[t]}
    IN  [t \in keep |-> series[t]]

compare_two_qc_take_min(s1, s2) ==
    LET combined_index == DOMAIN s1 \cup DOMAIN s2
        full_index_1 == replace_nan_inf(reindex_ffill(s1, combined_index))
        full_index_2 == replace_nan_inf(reindex_ffill(s2, combined_index))
    IN  drop_repeats(np_minimum(full_index_1, full_index_2))

\* ------------------------------------------------------- rainfall ramp
\* A float that need not be an integer is the fraction num / den with
\* den >= 0: den = 0 is inf (num > 0) or nan (num = 0).
Frac(n, d) == [num |-> n, den |-> d]
FracNaN == Frac(0, 0)

\* std_series.cumsum() at label t.
cumsum(std_series, t) ==
    LET RECURSIVE sum(_)
        sum(R) == IF R = {} THEN 0
                  ELSE std_series[Min(R)] + sum(R \ {Min(R)})
    IN  sum({u \in DOMAIN std_series : u <= t})

\* check_series / recorded_totals.diff(): the check total over the recorded
\* total since the previous check, nan at the first check.
scada_difference(std_series, check_series, c) ==
    LET before == {u \in DOMAIN check_series : u < c}
    IN  IF before = {} THEN FracNaN
        ELSE LET diff == cumsum(std_series, c) - cumsum(std_series, Max(before))
             IN  IF diff = 0
                 THEN (IF check_series[c] = 0 THEN FracNaN ELSE Frac(1, 0))
                 ELSE Frac(check_series[c], diff)

\* scada_difference.reindex(std_series.index, method="bfill") at label t: the
\* ratio of the first check at or after t, nan when there is none.
reindex_bfill(std_series, check_series, t) ==
    LET next == {c \in DOMAIN check_series : c >= t}
    IN  IF next = {} THEN FracNaN
        ELSE scada_difference(std_series, check_series, Min(next))

\* std_series * multiplier.fillna(0) at label t.
ramped_value(std_series, check_series, t) ==
    LET multiplier == reindex_bfill(std_series, check_series, t)
    IN  IF multiplier = FracNaN THEN Frac(0, 1)
        ELSE IF multiplier.den = 0
        THEN (IF std_series[t] = 0 THEN FracNaN ELSE Frac(1, 0))
        ELSE Frac(std_series[t] * multiplier.num, multiplier.den)

\* (scada_difference > 0.9) & (scada_difference < 1.1), false for nan and inf.
qc_600(ratio) ==
    /\ ratio.den > 0
    /\ 9 * ratio.den < 10 * ratio.num
    /\ 10 * ratio.num < 11 * ratio.den

\* Quality codes that are not shifted: each check holds the code of the
\* interval that ends at it.
ramp_quality_code_unshifted(std_series, check_series) ==
    [c \in DOMAIN check_series |->
        IF qc_600(scada_difference(std_series, check_series, c)) THEN 600
        ELSE 400]

\* The quality codes, shifted one check back; 0 at the last check.
ramp_quality_code(std_series, check_series) ==
    [c \in DOMAIN check_series |->
        LET after == {u \in DOMAIN check_series : u > c}
        IN  IF after = {} THEN 0
            ELSE IF qc_600(scada_difference(std_series, check_series, Min(after)))
            THEN 600
            ELSE 400]

\* incremental_series[check_series.index] raises KeyError.
ramp_raises(std_series, check_series) ==
    ~ (DOMAIN check_series \subseteq DOMAIN std_series)

check_data_ramp_and_quality(std_series, check_series) ==
    [std_series |-> [t \in DOMAIN std_series |->
                        ramped_value(std_series, check_series, t)],
     quality_code |-> ramp_quality_code(std_series, check_series)]

\* ------------------------------------------------------ rainfall points
\* Timestamps of rainfall checks are ordinals in a sample of the calendar:
\* the 1st, 15th and 28th of every month, from January 2020 on.
year(t) == 2020 + (t \div 36)
month(t) == ((t % 36) \div 3) + 1
day(t) == <<1, 15, 28>>[(t % 3) + 1]

\* Months without a check that cost points, and the points.
cutoff_times == (18 :> 12) @@ (12 :> 3) @@ (3 :> 1)

\* The month count between a check and the next one.
months_gap(time, next_time) ==
    LET gap == (year(next_time) - year(time)) * 12
                 + (month(next_time) - month(time))
    IN  IF day(next_time) <= day(time) THEN gap - 1 ELSE gap

\* The largest points of the cutoffs that months_diff reaches, 0 if none.
cutoff_points(months_diff) ==
    Max({0} \cup {cutoff_times[m] :
                    m \in {k \in DOMAIN cutoff_times : months_diff >= k}})

\* raise ValueError("Cannot have empty rainfall check series")
time_since_inspection_raises(check_series) == DOMAIN check_series = {}

rainfall_time_since_inspection_points(check_series) ==
    [t \in DOMAIN check_series |->
        LET later == {u \in DOMAIN check_series : u > t}
        IN  IF later = {} THEN 0 - 1000
            ELSE cutoff_points(months_gap(t, Min(later)))]

\* raise ValueError("At least one series must not be empty.")
points_combiner_raises(list_of_points_series) ==
    \A k \in DOMAIN list_of_points_series :
        DOMAIN list_of_points_series[k] = {}

\* The series summed on the union of their indexes, each forward-filled and
\* 0 before its first label; a row that repeats the row before it is dropped.
points_combiner(list_of_points_series) ==
    LET list == SelectSeq(list_of_points_series, LAMBDA i : DOMAIN i # {})
        new_index == UNION {DOMAIN list[k] : k \in DOMAIN list}
        reindex(i, t) == LET p == {u \in DOMAIN i : u <= t}
                         IN  IF p = {} THEN 0 ELSE i[Max(p)]
        RECURSIVE sum(_, _)
        sum(k, t) == IF k = 0 THEN 0 ELSE reindex(list[k], t) + sum(k - 1, t)
        points_series == [t \in new_index |-> sum(Len(list), t)]
        shift(t) == LET p == {u \in new_index : u < t}
                    IN  IF p = {} THEN NaN ELSE points_series[Max(p)]
    IN  [t \in {u \in new_index : shift(u) # points_series[u]} |->
            points_series[t]]

\* The points of the series are whole numbers, which astype(int) keeps, so
\* three_series is the combined points plus three_points_total.
points_to_qc(list_of_points_series, static_points, three_points_total) ==
    LET points_series == points_combiner(list_of_points_series)
        greater_than_3_list == list_of_points_series
        three_series == [t \in DOMAIN points_series |->
                            points_combiner(greater_than_3_list)[t]
                              + three_points_total]
    IN  [t \in DOMAIN points_series |->
            (IF points_series[t] >= 12 \/ three_series[t] >= 3
             THEN 400 ELSE 0)
          + (IF points_series[t] >= 3 /\ points_series[t] < 12
             THEN 500 ELSE 0)
          + (IF points_series[t] >= 0 /\ points_series[t] < 3
             THEN 600 ELSE 0)]

\* RFProcessor.quality_encoder from the ramp on: the error it raises, if any.
rf_quality_encoder_error(six_minute_data, checks_for_qcing) ==
    IF ramp_raises(six_minute_data, checks_for_qcing) THEN "KeyError"
    ELSE IF time_since_inspection_raises(checks_for_qcing) THEN "ValueError"
    ELSE "none"

\* The ramped series and the timeline it leaves when nothing is raised.
rf_quality_encoder(six_minute_data, checks_for_qcing, site_survey_points, three_point_sum) ==
    LET ramp == check_data_ramp_and_quality(six_minute_data, checks_for_qcing)
        deviation_points == ramp.quality_code
        time_points == rainfall_time_since_inspection_points(checks_for_qcing)
        quality_series == points_to_qc(<<deviation_points, time_points>>,
                                       site_survey_points, three_point_sum)
        qc_frame == [t \in DOMAIN quality_series |->
                       Row(quality_series[t], "RFL",
                           "Rainfall custom quality encoding")]
    IN  [ramped_standard |-> ramp.std_series,
         quality_data |-> apply_quality(EmptyFrame, qc_frame, TRUE)]

\* ------------------------------------------------- more series operations
\* std_series with a zero at every check timestamp it lacks.
add_empty_rainfall_to_std(std_series, check_series) ==
    [t \in DOMAIN std_series \cup DOMAIN check_series |->
        IF t \in DOMAIN std_series THEN std_series[t] ELSE 0]

\* Pressures are whole multiples of 0.0001 hPa: sea level is 1013.25 hPa and
\* a metre of altitude is 0.1222 hPa.
\* atm_pres += (ap_altitude - do_altitude) * 0.1222: the caller's series
\* after the call.
atm_pres_corrected(atm_pres, ap_altitude, do_altitude) ==
    [t \in DOMAIN atm_pres |-> atm_pres[t] + (ap_altitude - do_altitude) * 1222]

\* diss_ox * 1013.25 / atm_pres, on the union of the two indexes.
correct_dissolved_oxygen(diss_ox, atm_pres, ap_altitude, do_altitude) ==
    LET pres == atm_pres_corrected(atm_pres, ap_altitude, do_altitude)
    IN  [t \in DOMAIN diss_ox \cup DOMAIN pres |->
            IF t \in DOMAIN diss_ox /\ t \in DOMAIN pres
            THEN Frac(diss_ox[t] * 10132500, pres[t])
            ELSE FracNaN]

\* ------------------------------------------------------- quality filters
\* The rows of base_series where qc_filter, back-filled onto the index of
\* base_series and False where nothing follows, is True.
base_data_qc_filter(base_series, qc_filter) ==
    LET base_filter ==
            [t \in DOMAIN base_series |->
                LET next == {u \in DOMAIN qc_filter : u >= t}
                IN  IF next = {} THEN FALSE ELSE qc_filter[Min(next)]]
    IN  [t \in {u \in DOMAIN base_series : base_filter[u]} |-> base_series[t]]

base_data_meets_qc(base_series, qc, target_qc) ==
    base_data_qc_filter(base_series,
                        [t \in DOMAIN qc |-> qc[t] = target_qc])

\* ----------------------------------------------------------- change_blocks
\* next(iterator, None) is a position in the series' items, one past the last
\* when the iterator is exhausted; None is NaN.
item_date(series, i) ==
    LET idx == IndexSeq(DOMAIN series)
    IN  IF i <= Len(idx) THEN idx[i] ELSE NaN

next_item(series, i) == IF i <= Cardinality(DOMAIN series) THEN i + 1 ELSE i

\* The local variables of change_blocks when its loop is entered.
change_blocks_entry ==
    [raw_next |-> 1, changed_next |-> 1, start_index |-> NaN,
     changed_block_list |-> <<>>]

\* The loop condition: one of the iterators still holds an item.
change_blocks_while(raw_series, changed_series, frame) ==
    \/ item_date(raw_series, frame.raw_next) # NaN
    \/ item_date(changed_series, frame.changed_next) # NaN

\* raw_date < changed_date with changed_date None raises TypeError.
change_blocks_raises(raw_series, changed_series, frame) ==
    /\ item_date(raw_series, frame.raw_next) # NaN
    /\ item_date(changed_series, frame.changed_next) = NaN

\* One iteration of the loop: the local variables after it.
change_blocks_iteration(raw_series, changed_series, frame) ==
    LET raw_date == item_date(raw_series, frame.raw_next)
        changed_date == item_date(changed_series, frame.changed_next)
        changed == \/ raw_date # changed_date
                   \/ raw_series[raw_date] # changed_series[changed_date]
        raw_first == raw_date = NaN \/ raw_date < changed_date
    IN  [raw_next |->
            IF raw_date = changed_date \/ raw_first
            THEN next_item(raw_series, frame.raw_next) ELSE frame.raw_next,
         changed_next |->
            IF raw_date = changed_date \/ ~ raw_first
            THEN next_item(changed_series, frame.changed_next)
            ELSE frame.changed_next,
         start_index |->
            IF ~ changed THEN NaN
            ELSE IF frame.start_index = NaN THEN raw_date
            ELSE frame.start_index,
         changed_block_list |->
            IF ~ changed /\ frame.start_index # NaN
            THEN Append(frame.changed_block_list,
                        <<frame.start_index, raw_date>>)
            ELSE frame.changed_block_list]

\* The list returned after the loop: an open block ends at the last raw label.
change_blocks_return(raw_series, frame) ==
    IF frame.start_index # NaN
    THEN Append(frame.changed_block_list,
                <<frame.start_index, Max(DOMAIN raw_series)>>)
    ELSE frame.changed_block_list

\* ----------------------------------------------------------------- inputs
StdValue(t) == IF t % 2 = 0 THEN 2 ELSE 5
StandardSeries == {[t \in Times |-> IF t \in V THEN StdValue(t) ELSE NaN] :
                     V \in SUBSET Times}

CheckRows == {[Value |-> 2, QC |-> TRUE], [Value |-> 25, QC |-> TRUE],
              [Value |-> 2, QC |-> FALSE]}
CheckFrames == UNION {[D -> CheckRows] :
                        D \in {E \in SUBSET Times : Cardinality(E) <= MaxChecks}}

\* The timeline before quality_encoder runs: empty, or imported records,
\* which carry a Value and no Code or Details.
PriorQuality == {EmptyFrame, (1 :> Row(600, NoText, NoText))}

StalenessTables == {EmptyFrame, (1 :> 500 @@ 3 :> 400), (1 :> 400 @@ 3 :> 500)}

QcCodes == {400, 500, 600}
QcTimes == 0..MaxQcT
QcSeries == UNION {[D -> QcCodes] : D \in SUBSET QcTimes}

\* No helper function is being called on its own.
NoCall == args = [fn |-> "none"] /\ ret = NaN /\ locals = NaN

\* ------------------------------------------------------- quality_encoder
Init ==
    /\ pc = "base"
    /\ standard_data \in StandardSeries
    /\ check_data \in CheckFrames
    \* an earlier timeline is enumerated with at most one check: the base step
    \* of a non-empty check frame replaces the timeline whatever it held
    /\ quality_data \in IF Cardinality(DOMAIN check_data) <= 1
                        THEN PriorQuality ELSE {EmptyFrame}
    /\ from_date = 0
    /\ to_date = MaxT
    /\ gap_limit \in {0, 1, DefaultGapLimit}
    /\ max_qc \in {NaN, 500}
    /\ interval_dict \in StalenessTables
    /\ prev_quality = EmptyFrame
    /\ changed_data = EmptyFrame
    /\ replace = FALSE
    /\ qc_series_1 = EmptyFrame
    /\ qc_series_2 = EmptyFrame
    /\ minimised_qc_series = EmptyFrame
    /\ NoCall

Inputs == <<standard_data, check_data, from_date, to_date, gap_limit, max_qc,
            interval_dict, qc_series_1, qc_series_2, minimised_qc_series,
            args, ret, locals>>

qc_series == qc_checks(check_data)

\* .loc[label, column] = value on the existing frame: the row is created when
\* the label is new, its other cells stay as they were.
loc_set(frame, t, col, v) ==
    [u \in DOMAIN frame \cup {t} |->
        IF u = t
        THEN [Row(Cell(frame, t, "Value"), Cell(frame, t, "Code"),
                  Cell(frame, t, "Details")) EXCEPT ![col] = v]
        ELSE frame[u]]

empty_check_records(frame, from, to) ==
    LET f1 == loc_set(frame, from, "Value", 200)
        f2 == loc_set(f1, to, "Value", 0)
        f3 == loc_set(f2, from, "Code", "EMT")
        f4 == loc_set(f3, to, "Code", "EMT, END")
        f5 == loc_set(f4, from, "Details", "Empty data, start time set to qc200")
    IN  loc_set(f5, to, "Details", "Empty data, qc0 at end")

\* self._apply_quality(frame, rep): the call and the record of it.
ApplyQuality(frame, rep) ==
    /\ quality_data' = apply_quality(quality_data, frame, rep)
    /\ prev_quality' = quality_data
    /\ changed_data' = frame
    /\ replace' = rep

BaseStep ==
    /\ pc = "base"
    /\ IF check_data = EmptyFrame
       THEN /\ quality_data' = empty_check_records(quality_data, from_date, to_date)
            /\ prev_quality' = quality_data
            /\ UNCHANGED <<changed_data, replace>>
            /\ pc' = "stale"
       ELSE IF check_raises(standard_data, qc_series, DefaultGapLimit)
       THEN /\ pc' = "raised"
            /\ UNCHANGED <<quality_data, prev_quality, changed_data, replace>>
       ELSE /\ ApplyQuality(check_data_quality_code(standard_data, qc_series,
                                                    DefaultGapLimit), TRUE)
            /\ pc' = "stale"
    /\ UNCHANGED Inputs

StalenessStep ==
    /\ pc = "stale"
    /\ ApplyQuality(bulk_downgrade_out_of_validation(quality_data, qc_series,
                                                     interval_dict), FALSE)
    /\ pc' = "missing"
    /\ UNCHANGED Inputs

MissingStep ==
    /\ pc = "missing"
    /\ ApplyQuality(missing_data_quality_code(standard_data, quality_data,
                                              gap_limit), FALSE)
    /\ pc' = "ceiling"
    /\ UNCHANGED Inputs

CeilingStep ==
    /\ pc = "ceiling"
    /\ ApplyQuality(max_qc_limiter(quality_data, max_qc), FALSE)
    /\ pc' = "done"
    /\ UNCHANGED Inputs

Next == BaseStep \/ StalenessStep \/ MissingStep \/ CeilingStep

Spec == Init /\ [][Next]_vars

\* ------------------------------------- compare_two_qc_take_min, on its own
InitTakeMin ==
    /\ pc = "call"
    /\ qc_series_1 \in QcSeries
    /\ qc_series_2 \in QcSeries
    /\ minimised_qc_series = EmptyFrame
    /\ standard_data = EmptyFrame
    /\ check_data = EmptyFrame
    /\ quality_data = EmptyFrame
    /\ from_date = 0
    /\ to_date = MaxQcT
    /\ gap_limit = 0
    /\ max_qc = NaN
    /\ interval_dict = EmptyFrame
    /\ prev_quality = EmptyFrame
    /\ changed_data = EmptyFrame
    /\ replace = FALSE
    /\ NoCall

CompareTwoQcTakeMin ==
    /\ pc = "call"
    /\ minimised_qc_series' = compare_two_qc_take_min(qc_series_1, qc_series_2)
    /\ pc' = "return"
    /\ UNCHANGED <<standard_data, check_data, quality_data, from_date, to_date,
                   gap_limit, max_qc, interval_dict, prev_quality, changed_data,
                   replace, qc_series_1, qc_series_2, args, ret, locals>>

NextTakeMin == CompareTwoQcTakeMin

SpecTakeMin == InitTakeMin /\ [][NextTakeMin]_vars

\* ------------------------------------------------ _apply_quality, on its own
\* Rows of the existing frame and of the candidate differ in every non-null
\* cell, so that the result shows which frame a cell came from.
OldRows == {Row(v, c, d) : v \in {NaN, 600}, c \in {NoText, "OLD"},
                           d \in {NoText, "old"}}
NewRows == {Row(v, c, d) : v \in {NaN, 500}, c \in {NoText, "NEW"},
                           d \in {NoText, "new"}}
ApplyTimes == 0..MaxApplyT
OldFrames == UNION {[D -> OldRows] : D \in SUBSET ApplyTimes}
NewFrames == UNION {[D -> NewRows] : D \in SUBSET ApplyTimes}

InitApply ==
    /\ pc = "call"
    /\ quality_data \in OldFrames
    /\ changed_data \in NewFrames
    /\ replace \in BOOLEAN
    /\ prev_quality = EmptyFrame
    /\ standard_data = EmptyFrame
    /\ check_data = EmptyFrame
    /\ from_date = 0
    /\ to_date = MaxApplyT
    /\ gap_limit = 0
    /\ max_qc = NaN
    /\ interval_dict = EmptyFrame
    /\ qc_series_1 = EmptyFrame
    /\ qc_series_2 = EmptyFrame
    /\ minimised_qc_series = EmptyFrame
    /\ NoCall

ApplyQualityCall ==
    /\ pc = "call"
    /\ ApplyQuality(changed_data, replace)
    /\ pc' = "return"
    /\ UNCHANGED Inputs

NextApply == ApplyQualityCall

SpecApply == InitApply /\ [][NextApply]_vars

\* ------------------------------------------------ the helpers, on their own
PipelineVars == <<standard_data, check_data, quality_data, from_date, to_date,
                  gap_limit, max_qc, interval_dict, prev_quality, changed_data,
                  replace, qc_series_1, qc_series_2, minimised_qc_series>>

\* A Processor that holds no data.
NoPipeline ==
    /\ standard_data = EmptyFrame
    /\ check_data = EmptyFrame
    /\ quality_data = EmptyFrame
    /\ from_date = 0
    /\ to_date = 0
    /\ gap_limit = 0
    /\ max_qc = NaN
    /\ interval_dict = EmptyFrame
    /\ prev_quality = EmptyFrame
    /\ changed_data = EmptyFrame
    /\ replace = FALSE
    /\ qc_series_1 = EmptyFrame
    /\ qc_series_2 = EmptyFrame
    /\ minimised_qc_series = EmptyFrame

\* ---------------------------------------------------- find_qc, on its own
\* Evaluators as the constructors build them, with the shift that
\* Processor.__init__ sets on them.
ShiftValues == {0, 2, 0 - 2}
FlatEvaluators ==
    {[class |-> "Measurement", qc_500_limit |-> qc_500_limit,
      qc_600_limit |-> l6, qc_500_percent |-> NaN, qc_600_percent |-> NaN,
      limit_percent_threshold |-> NaN, constant_check_shift |-> s] :
        l6 \in {0, qc_600_limit}, s \in ShiftValues}
TwoLevelEvaluators ==
    {[class |-> "TwoLevelMeasurement", qc_500_limit |-> qc_500_limit,
      qc_600_limit |-> qc_600_limit, qc_500_percent |-> 50,
      qc_600_percent |-> 10, limit_percent_threshold |-> 6,
      constant_check_shift |-> s] : s \in ShiftValues}
Datums == 0..MaxDatum

InitFindQc ==
    /\ pc = "call"
    /\ args \in {[fn |-> "find_qc", evaluator |-> e, base_datum |-> b,
                   check_datum |-> c] :
                     e \in FlatEvaluators \cup TwoLevelEvaluators,
                     b \in Datums, c \in Datums}
    /\ ret = NaN
    /\ locals = NaN
    /\ NoPipeline

FindQc ==
    /\ pc = "call"
    /\ ret' = evaluator_find_qc(args.evaluator, args.base_datum,
                                args.check_datum)
    /\ pc' = "return"
    /\ UNCHANGED <<args, locals, PipelineVars>>

NextFindQc == FindQc

SpecFindQc == InitFindQc /\ [][NextFindQc]_vars

\* ------------------------------ gap_finder and small_gap_closer, on their own
\* Series over any set of timestamps up to MaxGapT, a value or NaN in each row.
GapTimes == 0..MaxGapT
GapSeries == UNION {[D -> {NaN, 1}] : D \in SUBSET GapTimes}

InitGaps ==
    /\ pc = "call"
    /\ args \in {[fn |-> "gap_finder", data |-> s] : s \in GapSeries}
               \cup {[fn |-> "small_gap_closer", series |-> s, gap_length |-> g] :
                        s \in GapSeries, g \in 0..MaxGapLength}
    /\ ret = NaN
    /\ locals = NaN
    /\ NoPipeline

GapFinder ==
    /\ pc = "call"
    /\ args.fn = "gap_finder"
    /\ IF gap_finder_raises(args.data)
       THEN pc' = "raised" /\ UNCHANGED ret
       ELSE pc' = "return" /\ ret' = gap_finder(args.data)
    /\ UNCHANGED <<args, locals, PipelineVars>>

SmallGapCloser ==
    /\ pc = "call"
    /\ args.fn = "small_gap_closer"
    /\ IF gap_finder_raises(args.series)
       THEN pc' = "raised" /\ UNCHANGED ret
       ELSE pc' = "return"
            /\ ret' = small_gap_closer(args.series, args.gap_length)
    /\ UNCHANGED <<args, locals, PipelineVars>>

NextGaps == GapFinder \/ SmallGapCloser

SpecGaps == InitGaps /\ [][NextGaps]_vars

\* ------------------- find_nearest_time and find_nearest_valid_time, on their own
NearTimes == 0..MaxNearT
NearSeries == UNION {[D -> {NaN, 1}] : D \in SUBSET NearTimes}
\* Instants from one tick before the first to one tick after the last.
NearInstants == (0 - 1)..(MaxNearT + 1)

InitNearest ==
    /\ pc = "call"
    /\ args \in {[fn |-> f, series |-> s, dt |-> t] :
                   f \in {"find_nearest_time", "find_nearest_valid_time"},
                   s \in NearSeries, t \in NearInstants}
    /\ ret = NaN
    /\ locals = NaN
    /\ NoPipeline

FindNearestTime ==
    /\ pc = "call"
    /\ args.fn = "find_nearest_time"
    /\ IF find_nearest_time_error(args.series, args.dt) # "none"
       THEN pc' = "raised"
            /\ ret' = find_nearest_time_error(args.series, args.dt)
       ELSE pc' = "return"
            /\ ret' = find_nearest_time(args.series, args.dt)
    /\ UNCHANGED <<args, locals, PipelineVars>>

FindNearestValidTime ==
    /\ pc = "call"
    /\ args.fn = "find_nearest_valid_time"
    /\ IF find_nearest_valid_time_error(args.series, args.dt) # "none"
       THEN pc' = "raised"
            /\ ret' = find_nearest_valid_time_error(args.series, args.dt)
       ELSE pc' = "return"
            /\ ret' = find_nearest_valid_time(args.series, args.dt)
    /\ UNCHANGED <<args, locals, PipelineVars>>

NextNearest == FindNearestTime \/ FindNearestValidTime

SpecNearest == InitNearest /\ [][NextNearest]_vars

\* ------------------------------ check_data_ramp_and_quality, on its own
RampTimes == 0..MaxRampT
\* Six-minute rainfall increments, on an index that lacks at most one of the
\* timestamps, and check totals.
RampStdSeries ==
    UNION {[D -> {0, 9, 10}] :
             D \in {E \in SUBSET RampTimes : Cardinality(RampTimes \ E) <= 1}}
RampCheckSeries ==
    UNION {[D -> {0, 10, 20}] :
             D \in {E \in SUBSET RampTimes : Cardinality(E) <= MaxRampChecks}}

InitRamp ==
    /\ pc = "call"
    /\ args \in {[fn |-> "check_data_ramp_and_quality", std_series |-> s,
                   check_series |-> c] :
                     s \in RampStdSeries, c \in RampCheckSeries}
    /\ ret = NaN
    /\ locals = NaN
    /\ NoPipeline

CheckDataRampAndQuality ==
    /\ pc = "call"
    /\ IF ramp_raises(args.std_series, args.check_series)
       THEN pc' = "raised" /\ ret' = "KeyError"
       ELSE pc' = "return"
            /\ ret' = check_data_ramp_and_quality(args.std_series,
                                                  args.check_series)
    /\ UNCHANGED <<args, locals, PipelineVars>>

NextRamp == CheckDataRampAndQuality

SpecRamp == InitRamp /\ [][NextRamp]_vars

\* ------------------------------------------- rainfall points, on their own
RfTimes == 0..(36 * (MaxYears + 1) - 1)
\* The subsets of S of at most n elements.
RECURSIVE SubsetsUpTo(_, _)
SubsetsUpTo(S, n) ==
    IF n = 0 THEN {{}}
    ELSE LET P == SubsetsUpTo(S, n - 1)
         IN  P \cup {E \cup {x} : E \in P, x \in S}
RfCheckSeries == UNION {[D -> {10}] : D \in SubsetsUpTo(RfTimes, MaxRfChecks)}

\* Points series as the ramp, the inspection intervals and the tests give.
PointTimes == 0..MaxPointT
PointsSeries == UNION {[D -> {0 - 1000, 0, 1, 2, 3, 12}] : D \in SUBSET PointTimes}

\* Six-minute totals and checks at a start, three months and eighteen months
\* after it; the site matrix gives no points or three three-point items.
EncoderTimes == {1, 10, 55}
EncoderStdSeries == [EncoderTimes -> {0, 10}]
EncoderCheckSeries == UNION {[D -> {10}] : D \in SUBSET EncoderTimes}

InitRainfall ==
    /\ pc = "call"
    /\ args \in
         {[fn |-> "rainfall_time_since_inspection_points", check_series |-> c] :
            c \in RfCheckSeries}
         \cup
         {[fn |-> "points_to_qc", list_of_points_series |-> <<d, p>>,
           static_points |-> s, three_points_total |-> n] :
            d \in PointsSeries, p \in PointsSeries, s \in {0, 3}, n \in {0, 3}}
         \cup
         {[fn |-> "quality_encoder", six_minute_data |-> s,
           checks_for_qcing |-> c, site_survey_points |-> 3 * n,
           three_point_sum |-> n] :
            s \in EncoderStdSeries, c \in EncoderCheckSeries, n \in {0, 3}}
    /\ ret = NaN
    /\ locals = NaN
    /\ NoPipeline

RainfallTimeSinceInspectionPoints ==
    /\ pc = "call"
    /\ args.fn = "rainfall_time_since_inspection_points"
    /\ IF time_since_inspection_raises(args.check_series)
       THEN pc' = "raised" /\ ret' = "ValueError"
       ELSE pc' = "return"
            /\ ret' = rainfall_time_since_inspection_points(args.check_series)
    /\ UNCHANGED <<args, locals, PipelineVars>>

PointsToQc ==
    /\ pc = "call"
    /\ args.fn = "points_to_qc"
    /\ IF points_combiner_raises(args.list_of_points_series)
       THEN pc' = "raised" /\ ret' = "ValueError"
       ELSE pc' = "return"
            /\ ret' = points_to_qc(args.list_of_points_series,
                                   args.static_points, args.three_points_total)
    /\ UNCHANGED <<args, locals, PipelineVars>>

RFQualityEncoder ==
    /\ pc = "call"
    /\ args.fn = "quality_encoder"
    /\ LET error == rf_quality_encoder_error(args.six_minute_data,
                                             args.checks_for_qcing)
       IN  IF error # "none"
           THEN pc' = "raised" /\ ret' = error
           ELSE pc' = "return"
                /\ ret' = rf_quality_encoder(args.six_minute_data,
                                             args.checks_for_qcing,
                                             args.site_survey_points,
                                             args.three_point_sum)
    /\ UNCHANGED <<args, locals, PipelineVars>>

NextRainfall ==
    \/ RainfallTimeSinceInspectionPoints
    \/ PointsToQc
    \/ RFQualityEncoder

SpecRainfall == InitRainfall /\ [][NextRainfall]_vars

\* ------------------------------------- series operations, called repeatedly
\* The caller keeps the objects it passed (args) and may pass them again.
OpTimes == 0..MaxOpT
OpSeries == UNION {[D -> {NaN, 0, 10}] : D \in SUBSET OpTimes}
OpRainSeries == UNION {[D -> {0, 10}] : D \in SUBSET OpTimes}
\* Dissolved oxygen in mg/L, pressure at and below sea-level pressure,
\* altitudes in metres.
OxygenSeries == [OpTimes -> {8, 10}]
PressureSeries == [OpTimes -> {10132500, 10000000}]

InitSeriesOps ==
    /\ pc = "call"
    /\ args \in
         {[fn |-> "small_gap_closer", series |-> s, gap_length |-> n] :
            s \in OpSeries, n \in 0..1}
         \cup
         {[fn |-> "check_data_ramp_and_quality", std_series |-> s,
           check_series |-> c] : s \in OpRainSeries, c \in OpRainSeries}
         \cup
         {[fn |-> "add_empty_rainfall_to_std", std_series |-> s,
           check_series |-> c] : s \in OpRainSeries, c \in OpRainSeries}
         \cup
         {[fn |-> "correct_dissolved_oxygen", diss_ox |-> d, atm_pres |-> p,
           ap_altitude |-> a, do_altitude |-> 100] :
            d \in OxygenSeries, p \in PressureSeries, a \in {0, 100, 200}}
    /\ ret = NaN
    /\ locals = NaN
    /\ NoPipeline

\* A first call returns; a call with the same objects returns again.
Returns == pc \in {"call", "return"} /\ pc' = IF pc = "call" THEN "return"
                                                ELSE "again"

OpSmallGapCloser ==
    /\ args.fn = "small_gap_closer"
    /\ pc \in {"call", "return"}
    /\ IF gap_finder_raises(args.series)
       THEN pc' = "raised" /\ ret' = "IndexError"
       ELSE Returns /\ ret' = small_gap_closer(args.series, args.gap_length)
    /\ UNCHANGED <<args, locals, PipelineVars>>

OpCheckDataRampAndQuality ==
    /\ args.fn = "check_data_ramp_and_quality"
    /\ pc \in {"call", "return"}
    /\ IF ramp_raises(args.std_series, args.check_series)
       THEN pc' = "raised" /\ ret' = "KeyError"
       ELSE Returns
            /\ ret' = check_data_ramp_and_quality(args.std_series,
                                                  args.check_series)
    /\ UNCHANGED <<args, locals, PipelineVars>>

OpAddEmptyRainfallToStd ==
    /\ args.fn = "add_empty_rainfall_to_std"
    /\ Returns
    /\ ret' = add_empty_rainfall_to_std(args.std_series, args.check_series)
    /\ UNCHANGED <<args, locals, PipelineVars>>

OpCorrectDissolvedOxygen ==
    /\ args.fn = "correct_dissolved_oxygen"
    /\ Returns
    /\ ret' = correct_dissolved_oxygen(args.diss_ox, args.atm_pres,
                                       args.ap_altitude, args.do_altitude)
    /\ args' = [args EXCEPT !.atm_pres =
                   atm_pres_corrected(args.atm_pres, args.ap_altitude,
                                      args.do_altitude)]
    /\ UNCHANGED <<locals, PipelineVars>>

NextSeriesOps ==
    \/ OpSmallGapCloser
    \/ OpCheckDataRampAndQuality
    \/ OpAddEmptyRainfallToStd
    \/ OpCorrectDissolvedOxygen

SpecSeriesOps == InitSeriesOps /\ [][NextSeriesOps]_vars

\* ------------------------------------------ quality filters, on their own
FilterTimes == 0..MaxFilterT
FilterSeries == [FilterTimes -> {NaN, 2}]
FilterFrames ==
    UNION {[D -> {Row(500, NoText, NoText), Row(600, NoText, NoText)}] :
             D \in SUBSET FilterTimes}
FilterCodes == UNION {[D -> {500, 600}] : D \in SUBSET FilterTimes}

InitFilters ==
    /\ pc = "call"
    /\ args \in
         {[fn |-> "missing_data_quality_code", series |-> s, qc_frame |-> q,
           limit |-> n] : s \in FilterSeries, q \in FilterFrames, n \in 0..1}
         \cup
         {[fn |-> "base_data_meets_qc", base_series |-> s, qc |-> q,
           target_qc |-> c] :
            s \in FilterSeries, q \in FilterCodes, c \in {500, 600}}
    /\ ret = NaN
    /\ locals = NaN
    /\ NoPipeline

MissingDataQualityCode ==
    /\ pc = "call"
    /\ args.fn = "missing_data_quality_code"
    /\ pc' = "return"
    /\ ret' = missing_data_quality_code(args.series, args.qc_frame, args.limit)
    /\ UNCHANGED <<args, locals, PipelineVars>>

BaseDataMeetsQc ==
    /\ pc = "call"
    /\ args.fn = "base_data_meets_qc"
    /\ pc' = "return"
    /\ ret' = base_data_meets_qc(args.base_series, args.qc, args.target_qc)
    /\ UNCHANGED <<args, locals, PipelineVars>>

NextFilters == MissingDataQualityCode \/ BaseDataMeetsQc

SpecFilters == InitFilters /\ [][NextFilters]_vars

\* -------------------------------------------- change_blocks, on its own
BlockTimes == 0..MaxBlockT
BlockSeries == UNION {[D -> {1, 2}] : D \in SUBSET BlockTimes}

\* The function has been entered: its locals are those before the loop and
\* the list it will return is not built yet.
InitChangeBlocks ==
    /\ pc = "loop"
    /\ args \in {[fn |-> "change_blocks", raw_series |-> r,
                  changed_series |-> c] : r \in BlockSeries, c \in BlockSeries}
    /\ ret = <<>>
    /\ locals = change_blocks_entry
    /\ NoPipeline

ChangeBlocksLoop ==
    /\ pc = "loop"
    /\ change_blocks_while(args.raw_series, args.changed_series, locals)
    /\ IF change_blocks_raises(args.raw_series, args.changed_series, locals)
       THEN pc' = "raised" /\ UNCHANGED locals
       ELSE /\ locals' = change_blocks_iteration(args.raw_series,
                                                 args.changed_series, locals)
            /\ UNCHANGED pc
    /\ UNCHANGED <<args, ret, PipelineVars>>

ChangeBlocksReturn ==
    /\ pc = "loop"
    /\ ~ change_blocks_while(args.raw_series, args.changed_series, locals)
    /\ pc' = "return"
    /\ ret' = change_blocks_return(args.raw_series, locals)
    /\ UNCHANGED <<args, locals, PipelineVars>>

NextChangeBlocks == ChangeBlocksLoop \/ ChangeBlocksReturn

\* The interpreter keeps running the loop: a step that can change the state
\* is taken.
SpecChangeBlocks ==
    InitChangeBlocks /\ [][NextChangeBlocks]_vars /\ WF_vars(NextChangeBlocks)

\* =================================================================== claims
\* The base step of quality_encoder has run and produced a timeline.
AfterBase == pc = "stale"

\* C1: for a non-empty check series the base step emits one record per check
\* point, placed at the nearest valid standard timestamp, with code 200 when
\* the distance to it exceeds the gap_limit (seconds) given to quality_encoder
\* and the evaluator's code for (standard value there, check value) otherwise.
C1_BaseRecordsAsClaimed ==
    (AfterBase /\ DOMAIN qc_series # {}) =>
        /\ Cardinality(DOMAIN quality_data) = Cardinality(DOMAIN qc_series)
        /\ \A c \in DOMAIN qc_series :
              LET m == find_nearest_valid_time(standard_data, c)
              IN  /\ m \in DOMAIN quality_data
                  /\ quality_data[m].Value =
                        IF Abs(m - c) * TickSeconds > gap_limit THEN 200
                        ELSE find_qc(standard_data[m], qc_series[c])

\* C2: with an empty check series the base step leaves exactly two records,
\* code 200 at from_date and code 0 at to_date, whatever the timeline held
\* before and whatever the standard series holds.
C2_EmptyCheckTwoRecords ==
    (AfterBase /\ DOMAIN qc_series = {}) =>
        /\ DOMAIN quality_data = {from_date, to_date}
        /\ quality_data[from_date].Value = 200
        /\ quality_data[to_date].Value = 0

\* C3: after the ceiling step every record's code is at most max_qc (codes
\* above it became max_qc, the others are unchanged) and the ceiling step
\* neither added nor removed a record.
C3_CeilingEnforced ==
    (pc = "done" /\ max_qc # NaN) =>
        /\ DOMAIN quality_data = DOMAIN prev_quality
        /\ \A t \in DOMAIN quality_data :
              quality_data[t].Value =
                 IF prev_quality[t].Value > max_qc THEN max_qc
                 ELSE prev_quality[t].Value

\* The staleness step has run: prev_quality is the timeline after step 1,
\* quality_data the timeline after step 2.
AfterStaleness == pc = "missing"

\* The staleness thresholds that the check in force at t has outlived.
ExceededAt(t) ==
    {d \in DOMAIN interval_dict :
        \E c \in DOMAIN qc_series :
            /\ c <= t
            /\ ~ \E k \in DOMAIN qc_series : c < k /\ k <= t
            /\ t - c >= d}

AfterMarking == pc = "ceiling"

Fields == {"Value", "Code", "Details"}
Null(col) == IF col = "Value" THEN NaN ELSE NoText

\* The first timestamps of the maximal runs of missing standard values that
\* are longer than gap_limit rows.
LongGapStarts ==
    {a \in Times :
        \E b \in Times :
            /\ a <= b
            /\ \A t \in a..b : standard_data[t] = NaN
            /\ (a = 0 \/ standard_data[a - 1] # NaN)
            /\ (b = MaxT \/ standard_data[b + 1] # NaN)
            /\ b - a + 1 > gap_limit}

HadCode(frame, t) == t \in DOMAIN frame /\ frame[t].Value # NaN

Returned == pc = "return"

\* C6: with replace the timeline becomes the candidate; without it the
\* timestamps are the union of both frames' and each of Value, Code, Details
\* holds the existing entry when that is non-null and the candidate's entry
\* otherwise, also at timestamps present in only one of the frames.
C6_MergeNullCoalesces ==
    Returned =>
        IF replace THEN quality_data = changed_data
        ELSE /\ DOMAIN quality_data = DOMAIN prev_quality \cup DOMAIN changed_data
             /\ \A t \in DOMAIN quality_data : \A col \in Fields :
                   quality_data[t][col] =
                      IF t \in DOMAIN prev_quality /\ prev_quality[t][col] # Null(col)
                      THEN prev_quality[t][col]
                      ELSE IF t \in DOMAIN changed_data THEN changed_data[t][col]
                      ELSE Null(col)

\* A merge of two frames that each hold a timestamp the other lacks; the
\* merged row came from one frame only.
C6_Witness ==
    /\ Returned
    /\ ~ replace
    /\ \E t \in DOMAIN prev_quality \ DOMAIN changed_data :
          prev_quality[t].Value = 600 /\ quality_data[t] = prev_quality[t]
    /\ \E t \in DOMAIN changed_data \ DOMAIN prev_quality :
          changed_data[t].Code = "NEW" /\ quality_data[t] = changed_data[t]

\* The step-function value of a quality series at t: the code of its latest
\* record at or before t, Inf (no constraint) when it has none.
StepValue(series, t) ==
    LET p == {u \in DOMAIN series : u <= t}
    IN  IF p = {} THEN Inf ELSE series[Max(p)]

Least(x, y) == IF x <= y THEN x ELSE y

\* C7: at every instant at or after the earliest breakpoint of either series
\* the step-function value of compare_two_qc_take_min(a, b) is the smaller of
\* the two series' step-function values, a series without a record at or
\* before the instant imposing no constraint.
C7_TakeMinIsPointwiseMin ==
    Returned =>
        \A t \in QcTimes :
            (\E u \in DOMAIN qc_series_1 \cup DOMAIN qc_series_2 : u <= t) =>
                StepValue(minimised_qc_series, t) =
                    Least(StepValue(qc_series_1, t), StepValue(qc_series_2, t))

\* The two series start at different instants, each is the lower one
\* somewhere, and the result is shorter than the union of their breakpoints.
C7_Witness ==
    /\ Returned
    /\ DOMAIN qc_series_1 # {} /\ DOMAIN qc_series_2 # {}
    /\ Min(DOMAIN qc_series_1) < Min(DOMAIN qc_series_2)
    /\ \E t \in QcTimes : StepValue(qc_series_1, t) < StepValue(qc_series_2, t)
    /\ \E t \in QcTimes : StepValue(qc_series_2, t) < StepValue(qc_series_1, t)
    /\ Cardinality(DOMAIN minimised_qc_series) <
          Cardinality(DOMAIN qc_series_1 \cup DOMAIN qc_series_2)

\* C8: compare_two_qc_take_min is commutative: swapping the arguments gives
\* the same timestamps and the same code at each of them.
C8_TakeMinCommutes ==
    Returned =>
        LET swapped == compare_two_qc_take_min(qc_series_2, qc_series_1)
        IN  /\ DOMAIN swapped = DOMAIN minimised_qc_series
            /\ \A t \in DOMAIN swapped : swapped[t] = minimised_qc_series[t]

\* Two different series with different breakpoints, the second one starting
\* first and holding the lower code at an instant where both have one.
C8_Witness ==
    /\ Returned
    /\ DOMAIN qc_series_1 # {} /\ DOMAIN qc_series_2 # {}
    /\ DOMAIN qc_series_1 # DOMAIN qc_series_2
    /\ Min(DOMAIN qc_series_2) < Min(DOMAIN qc_series_1)
    /\ \E t \in DOMAIN qc_series_1 :
          StepValue(qc_series_2, t) < qc_series_1[t]
    /\ \E t \in DOMAIN qc_series_2 :
          StepValue(qc_series_1, t) < qc_series_2[t]

\* The records of a series whose code differs from the code of the record
\* before them, the first record included.
Collapsed(series) ==
    LET idx == IndexSeq(DOMAIN series)
        keep == {idx[i] : i \in {j \in 1..Len(idx) :
                                    j = 1 \/ series[idx[j - 1]] # series[idx[j]]}}
    IN  [t \in keep |-> series[t]]

\* C9: compare_two_qc_take_min(a, a) is a without the records whose code
\* equals the code of the record before them, and no result of
\* compare_two_qc_take_min holds two consecutive records with the same code.
C9_TakeMinIdempotent ==
    Returned =>
        /\ qc_series_1 = qc_series_2 =>
              minimised_qc_series = Collapsed(qc_series_1)
        /\ LET idx == IndexSeq(DOMAIN minimised_qc_series)
           IN  \A i \in 2..Len(idx) :
                  minimised_qc_series[idx[i - 1]] # minimised_qc_series[idx[i]]

\* A series with a repeated code merged with itself: the result is shorter
\* than the series and still has more than one record.
C9_Witness ==
    /\ Returned
    /\ qc_series_1 = qc_series_2
    /\ Cardinality(DOMAIN minimised_qc_series) > 1
    /\ Cardinality(DOMAIN minimised_qc_series) < Cardinality(DOMAIN qc_series_1)

\* C10: when quality_encoder has completed, the timeline holds a coded record
\* at or before from_date, so that a code is in force over the whole window.
C10_TimelineCoversWindow ==
    pc = "done" => \E t \in DOMAIN quality_data :
                       t <= from_date /\ quality_data[t].Value # NaN

\* The timestamps of a frame that carry a non-null code.
Coded(frame) == {t \in DOMAIN frame : frame[t].Value # NaN}

\* C11: the staleness, marking and ceiling steps of quality_encoder remove no
\* timestamp that carries a non-null code and turn no such code into null:
\* across each of these steps the set of coded timestamps only grows.
C11_CodedTimestampsOnlyGrow ==
    [][(pc \in {"stale", "missing", "ceiling"}) =>
          (\A t \in Coded(quality_data) :
              t \in DOMAIN quality_data' /\ quality_data'[t].Value # NaN)]_vars

\* The marking step has run over a timeline that held check records inside a
\* long gap: all of them are still coded and a gap record was added.
C11_Witness ==
    /\ AfterMarking
    /\ \E a \in LongGapStarts :
          \E t \in Coded(prev_quality) : t > a /\ standard_data[t] = NaN
    /\ Coded(prev_quality) \subseteq Coded(quality_data)
    /\ Coded(prev_quality) # Coded(quality_data)

\* find_qc has returned ret for args.evaluator, args.base_datum and
\* args.check_datum.
FindQcReturned == pc = "return" /\ args.fn = "find_qc"

\* C12: the flat evaluator returns 600 for a difference below qc_600_limit,
\* otherwise 500 for one below qc_500_limit, otherwise 400; a difference equal
\* to a limit is not within it, and equal values give 600 whenever
\* qc_600_limit is positive.
C12_FlatTiers ==
    (FindQcReturned /\ args.evaluator.class = "Measurement") =>
        LET e == args.evaluator
            d == Abs(args.base_datum - args.check_datum)
        IN  /\ (ret = 600) <=> (d < e.qc_600_limit)
            /\ (ret = 500) <=> (d >= e.qc_600_limit /\ d < e.qc_500_limit)
            /\ (ret = 400) <=> (d >= e.qc_600_limit /\ d >= e.qc_500_limit)
            /\ (d = e.qc_600_limit /\ d < e.qc_500_limit) => ret = 500
            /\ d = e.qc_500_limit => ret = 400
            /\ (d = 0 /\ e.qc_600_limit > 0) => ret = 600

\* A difference exactly at the 600 limit was coded 500.
C12_Witness ==
    /\ FindQcReturned
    /\ args.evaluator.class = "Measurement"
    /\ args.evaluator.qc_600_limit > 0
    /\ Abs(args.base_datum - args.check_datum) = args.evaluator.qc_600_limit
    /\ ret = 500

\* The code the three-way comparison gives to a difference num / den (den > 0)
\* against the limits l6 and l5.
Tier(num, den, l6, l5) ==
    IF num < l6 * den THEN 600 ELSE IF num < l5 * den THEN 500 ELSE 400

\* C13: the two-level evaluator applies the flat rule with the absolute
\* limits to a base value below limit_percent_threshold, and otherwise the
\* same strict three-way comparison to |base / check - 1| * 100 against
\* qc_600_percent and qc_500_percent.
C13_TwoLevelTiers ==
    (FindQcReturned /\ args.evaluator.class = "TwoLevelMeasurement") =>
        LET e == args.evaluator
            b == args.base_datum
            c == args.check_datum
        IN  /\ b < e.limit_percent_threshold =>
                  ret = Tier(Abs(b - c), 1, e.qc_600_limit, e.qc_500_limit)
            /\ (b >= e.limit_percent_threshold /\ c # 0) =>
                  ret = Tier(Abs(b - c) * 100, Abs(c),
                             e.qc_600_percent, e.qc_500_percent)

\* A base value at or above the threshold whose relative difference is
\* exactly qc_600_percent was coded 500, although its absolute difference is
\* within qc_600_limit.
C13_Witness ==
    /\ FindQcReturned
    /\ args.evaluator.class = "TwoLevelMeasurement"
    /\ args.base_datum >= args.evaluator.limit_percent_threshold
    /\ Abs(args.base_datum - args.check_datum) * 100 =
          args.evaluator.qc_600_percent * Abs(args.check_datum)
    /\ Abs(args.base_datum - args.check_datum) < args.evaluator.qc_600_limit
    /\ ret = 500

\* C14: the code returned for (base, check) by an evaluator with constant
\* check shift s is the code an evaluator with the same limits and shift 0
\* returns for (base, check + s).
C14_ShiftAddedToCheck ==
    FindQcReturned =>
        ret = evaluator_find_qc(
                  [args.evaluator EXCEPT !.constant_check_shift = 0],
                  args.base_datum,
                  args.check_datum + args.evaluator.constant_check_shift)

\* The maximal runs of consecutive NaN rows of a series, each as
\* <<label of its first row, number of rows>>.
MaximalRuns(series) ==
    LET idx == IndexSeq(DOMAIN series)
        n   == Len(idx)
    IN  {<<idx[a], b - a + 1>> : <<a, b>> \in
            {r \in (1..n) \X (1..n) :
                /\ r[1] <= r[2]
                /\ \A i \in r[1]..r[2] : series[idx[i]] = NaN
                /\ (r[1] = 1 \/ series[idx[r[1] - 1]] # NaN)
                /\ (r[2] = n \/ series[idx[r[2] + 1]] # NaN)}}

\* The labels of the rows of the maximal runs of at most limit rows.
ShortRunRows(series, limit) ==
    {t \in DOMAIN series :
        /\ series[t] = NaN
        /\ \E r \in MaximalRuns(series) :
              /\ r[2] <= limit
              /\ r[1] <= t
              /\ Cardinality({u \in DOMAIN series : r[1] <= u /\ u <= t}) <= r[2]}

GapFinderCalled == pc \in {"return", "raised"} /\ args.fn = "gap_finder"

\* C15: for every finite series gap_finder returns, in ascending timestamp
\* order, exactly one (start, length) entry per maximal run of consecutive
\* missing values, runs at the first or the last row included, and the empty
\* list for a series with no missing values.
C15_GapFinderListsRuns ==
    GapFinderCalled =>
        /\ pc = "return"
        /\ {ret[k] : k \in 1..Len(ret)} = MaximalRuns(args.data)
        /\ Len(ret) = Cardinality(MaximalRuns(args.data))
        /\ \A k \in 2..Len(ret) : ret[k - 1][1] < ret[k][1]
        /\ (\A t \in DOMAIN args.data : args.data[t] # NaN) => ret = <<>>

GapCloserCalled == pc \in {"return", "raised"} /\ args.fn = "small_gap_closer"

\* C16: small_gap_closer(series, limit) removes exactly the rows of the gaps
\* of at most limit rows: the other rows remain with their values, the row
\* count drops by the removed gaps' lengths, gap_finder on the result lists
\* the original gaps longer than limit with unchanged lengths, and a series
\* with no gaps is returned unchanged.
C16_CloserRemovesShortGaps ==
    GapCloserCalled =>
        /\ pc = "return"
        /\ DOMAIN ret = DOMAIN args.series
                            \ ShortRunRows(args.series, args.gap_length)
        /\ \A t \in DOMAIN ret : ret[t] = args.series[t]
        /\ LET removed == {r \in MaximalRuns(args.series) :
                              r[2] <= args.gap_length}
               RECURSIVE total(_)
               total(R) == IF R = {} THEN 0
                           ELSE LET r == CHOOSE x \in R : TRUE
                                IN  r[2] + total(R \ {r})
           IN  Cardinality(DOMAIN ret) =
                   Cardinality(DOMAIN args.series) - total(removed)
        /\ gap_finder(ret) =
               SelectSeq(gap_finder(args.series),
                         LAMBDA g : g[2] > args.gap_length)
        /\ MaximalRuns(args.series) = {} => ret = args.series

\* The call of a time matcher has ended, by a return or by an exception.
NearestCalled(f) == pc \in {"return", "raised"} /\ args.fn = f

\* dt lies within the first and the last timestamp of the (non-empty) series.
InRange(series, dt) ==
    /\ DOMAIN series # {}
    /\ Min(DOMAIN series) <= dt
    /\ dt <= Max(DOMAIN series)

\* t is a label of index at the least distance from dt, the later one of two
\* labels at that distance.
NearestLater(index, dt, t) ==
    /\ t \in index
    /\ \A u \in index : Abs(t - dt) <= Abs(u - dt)
    /\ \A u \in index : Abs(u - dt) = Abs(t - dt) => u <= t

\* C17: for t within the first and last timestamp of the series,
\* find_nearest_time returns a timestamp of the series at the least distance
\* from t over all rows, rows with missing values included, the later one of
\* two equally near timestamps, and t itself when t is a timestamp of the
\* series.
C17_NearestTime ==
    (NearestCalled("find_nearest_time") /\ InRange(args.series, args.dt)) =>
        /\ pc = "return"
        /\ NearestLater(DOMAIN args.series, args.dt, ret)
        /\ args.dt \in DOMAIN args.series => ret = args.dt

\* The instant lay midway between two timestamps and the later one, a row
\* with a missing value, was returned.
C17_Witness ==
    /\ NearestCalled("find_nearest_time")
    /\ pc = "return"
    /\ \E u \in DOMAIN args.series :
          u < args.dt /\ args.dt - u = ret - args.dt /\ args.series[u] # NaN
    /\ args.series[ret] = NaN

\* The timestamps of the rows that hold a value.
ValidTimes(series) == {t \in DOMAIN series : series[t] # NaN}

\* C18: for t within the first and last timestamp of the original series,
\* rows with missing values at its ends included, find_nearest_valid_time
\* returns the nearest timestamp among the rows that hold a value, never one
\* whose value is missing, and t itself when t is such a timestamp.
C18_NearestValidTime ==
    (/\ NearestCalled("find_nearest_valid_time")
     /\ InRange(args.series, args.dt)
     /\ ValidTimes(args.series) # {}) =>
        /\ pc = "return"
        /\ NearestLater(ValidTimes(args.series), args.dt, ret)
        /\ args.series[ret] # NaN
        /\ args.dt \in ValidTimes(args.series) => ret = args.dt

\* The instant was the first timestamp of the series, a row with a missing
\* value before every row that holds one: the range check accepted it and a
\* later timestamp that holds a value was returned.
C18_Witness ==
    /\ NearestCalled("find_nearest_valid_time")
    /\ pc = "return"
    /\ args.dt = Min(DOMAIN args.series)
    /\ args.series[args.dt] = NaN
    /\ ret > args.dt + 1
    /\ args.series[ret] # NaN

\* C19: both time matchers fail with the out-of-range error the tests expect,
\* KeyError, when t is strictly before the first or strictly after the last
\* timestamp of the series, and the range check accepts t equal to the first
\* or the last timestamp.
C19_OutOfRangeKeyError ==
    ((NearestCalled("find_nearest_time")
         \/ NearestCalled("find_nearest_valid_time"))
     /\ DOMAIN args.series # {}) =>
        /\ ~ InRange(args.series, args.dt) => (pc = "raised" /\ ret = "KeyError")
        /\ (args.dt = Min(DOMAIN args.series)
               \/ args.dt = Max(DOMAIN args.series)) =>
              (pc = "raised" => ret \notin {"KeyError", "Exception"})

RampReturned ==
    pc = "return" /\ args.fn = "check_data_ramp_and_quality"

\* The sum of the fractions series[t], t in R, as a fraction; nan as soon as
\* one of them is nan or inf.
FracSum(series, R) ==
    LET RECURSIVE sum(_)
        sum(Q) ==
            IF Q = {} THEN Frac(0, 1)
            ELSE LET x == series[Min(Q)]
                     y == sum(Q \ {Min(Q)})
                 IN  IF x.den = 0 \/ y.den = 0 THEN FracNaN
                     ELSE Frac(x.num * y.den + y.num * x.den, x.den * y.den)
    IN  sum(R)

\* The fraction equals the integer n.
FracIs(x, n) == x.den # 0 /\ x.num = n * x.den

\* The sum of the integers f[t], t in R.
IntSum(f, R) ==
    LET RECURSIVE sum(_)
        sum(Q) == IF Q = {} THEN 0 ELSE f[Min(Q)] + sum(Q \ {Min(Q)})
    IN  sum(R)

\* C20: with a standard row at every check timestamp, for every check after
\* the first the ramped increments over (previous check, this check] sum to
\* the check total of that interval, so that at every check instant the
\* ramped total since the first check is the total of the checks since then.
C20_RampedTotalsMatchChecks ==
    RampReturned =>
        \A c \in DOMAIN args.check_series :
            LET before == {u \in DOMAIN args.check_series : u < c}
            IN  before # {} =>
                  /\ FracIs(FracSum(ret.std_series,
                                    {t \in DOMAIN args.std_series :
                                        Max(before) < t /\ t <= c}),
                            args.check_series[c])
                  /\ FracIs(FracSum(ret.std_series,
                                    {t \in DOMAIN args.std_series :
                                        Min(before) < t /\ t <= c}),
                            IntSum(args.check_series,
                                   {u \in DOMAIN args.check_series :
                                       Min(before) < u /\ u <= c}))

\* The recorded total of the interval (c, n] of the standard series.
RecordedTotal(std_series, c, n) ==
    IntSum(std_series, {t \in DOMAIN std_series : c < t /\ t <= n})

\* C21: the interval between two consecutive checks, coded at its first
\* check, gets 600 when its ramp factor (check total over recorded total) lies
\* strictly between 0.9 and 1.1 and 400 otherwise; a recorded total 10% below
\* the check total gives 400 and one 5% below it gives 600.
C21_RampCodeWithinTenPercent ==
    RampReturned =>
        \A c \in DOMAIN args.check_series :
            LET after == {u \in DOMAIN args.check_series : u > c}
            IN  after # {} =>
                  LET n     == Min(after)
                      total == args.check_series[n]
                      rec   == RecordedTotal(args.std_series, c, n)
                  IN  /\ ret.quality_code[c] \in {400, 600}
                      /\ (ret.quality_code[c] = 600) <=>
                            (rec > 0 /\ 10 * total > 9 * rec
                                     /\ 10 * total < 11 * rec)
                      /\ (total > 0 /\ 10 * rec = 9 * total) =>
                            ret.quality_code[c] = 400
                      /\ (total > 0 /\ 20 * rec = 19 * total) =>
                            ret.quality_code[c] = 600

\* Three checks: over the first interval the recorder logged 9 of 10 and the
\* interval was coded 400, over the second 19 of 20 and it was coded 600.
C21_Witness ==
    /\ RampReturned
    /\ \E c1, c2, c3 \in DOMAIN args.check_series :
          /\ c1 < c2 /\ c2 < c3
          /\ RecordedTotal(args.std_series, c1, c2) = 9
          /\ args.check_series[c2] = 10
          /\ ret.quality_code[c1] = 400
          /\ RecordedTotal(args.std_series, c2, c3) = 19
          /\ args.check_series[c3] = 20
          /\ ret.quality_code[c2] = 600

\* A call of f in the rainfall module has returned.
RainfallReturned(f) == pc = "return" /\ args.fn = f

\* The whole months that have elapsed from a check to the next: the largest
\* count of months which, added to the check's date, does not pass the date
\* of the next.
WholeMonths(time, next_time) ==
    LET gap == (year(next_time) - year(time)) * 12
                 + (month(next_time) - month(time))
    IN  IF day(next_time) < day(time) THEN gap - 1 ELSE gap

\* C22: rainfall_time_since_inspection_points gives each check but the last
\* 12 points when at least 18 whole months elapse until the next check,
\* otherwise 3 when at least 12, otherwise 1 when at least 3, otherwise 0.
C22_PointsFromWholeMonths ==
    RainfallReturned("rainfall_time_since_inspection_points") =>
        \A t \in DOMAIN args.check_series :
            LET later == {u \in DOMAIN args.check_series : u > t}
            IN  later # {} =>
                  LET months == WholeMonths(t, Min(later))
                  IN  ret[t] = IF months >= 18 THEN 12
                               ELSE IF months >= 12 THEN 3
                               ELSE IF months >= 3 THEN 1
                               ELSE 0

\* The points a series holds at t: those of its latest row at or before t,
\* none before its first row.
PointsAt(series, t) ==
    LET p == {u \in DOMAIN series : u <= t}
    IN  IF p = {} THEN 0 ELSE series[Max(p)]

\* The combined point total at t: deviation score, time score and the static
\* site-survey score.
CombinedTotal(t) ==
    PointsAt(args.list_of_points_series[1], t)
      + PointsAt(args.list_of_points_series[2], t) + args.static_points

\* A constituent of the total is of three-point severity at t.
Flagged(t) ==
    \/ args.three_points_total > 0
    \/ \E k \in DOMAIN args.list_of_points_series :
          PointsAt(args.list_of_points_series[k], t) >= 3

\* C23: the code of an interval follows from the combined point total of the
\* deviation, time and site-survey scores: 400 when the total is at least 12
\* or a constituent is of three-point severity, otherwise 500 when the total
\* is at least 3 and 600 when it is between 0 and 3.
C23_CodeFromCombinedTotal ==
    RainfallReturned("points_to_qc") =>
        \A t \in DOMAIN ret :
            LET total == CombinedTotal(t)
            IN  /\ (total >= 12 \/ (Flagged(t) /\ total >= 0)) => ret[t] = 400
                /\ (~ Flagged(t) /\ 3 <= total /\ total < 12) => ret[t] = 500
                /\ (~ Flagged(t) /\ 0 <= total /\ total < 3) => ret[t] = 600

\* C24: with an empty check series the rainfall quality_encoder runs to
\* completion and leaves a timeline; it raises no error.
C24_EmptyChecksNeverAbort ==
    (args.fn = "quality_encoder" /\ DOMAIN args.checks_for_qcing = {}) =>
        pc # "raised"

\* C29: every code that points_to_qc returns is one of 0, 400, 500 and 600;
\* no record holds the sum of two branch codes.
C29_CodesOnQualityScale ==
    RainfallReturned("points_to_qc") =>
        \A t \in DOMAIN ret : ret[t] \in {0, 400, 500, 600}

\* C25: a series operation leaves the series it was passed as they were, and
\* a second call with the same objects returns what the first returned.
C25_InputsNeverMutated ==
    [][(args' = args) /\ ((pc = "return" /\ pc' = "again") => (ret' = ret))]_vars

\* C26: for a non-empty check series of n points the base evaluation yields
\* n + 1 records, the last of them with code 0.
C26_OneRecordMoreThanChecks ==
    (AfterBase /\ DOMAIN qc_series # {}) =>
        /\ Cardinality(DOMAIN quality_data) = Cardinality(DOMAIN qc_series) + 1
        /\ quality_data[Max(DOMAIN quality_data)].Value = 0

\* A call of f among the quality filters has returned.
FilterReturned(f) == pc = "return" /\ args.fn = f

\* The gaps longer than the limit, as <<first missing label, rows>>.
LongRuns == {r \in MaximalRuns(args.series) : r[2] > args.limit}

\* The labels of the rows of a run, and the first label after it.
RunRows(r) ==
    {t \in DOMAIN args.series :
        /\ r[1] <= t
        /\ Cardinality({u \in DOMAIN args.series : r[1] <= u /\ u <= t}) <= r[2]}
RunEnd(r) ==
    {t \in DOMAIN args.series :
        /\ t > r[1]
        /\ Cardinality({u \in DOMAIN args.series : r[1] <= u /\ u < t}) = r[2]}

C28_MeetsQcSelectsInForce ==
    FilterReturned("base_data_meets_qc") =>
        ret = [t \in {u \in DOMAIN args.base_series :
                         StepValue(args.qc, u) = args.target_qc} |->
                  args.base_series[t]]

\* The blocks of a list are in ascending order and do not overlap.
BlocksInOrder(list) ==
    /\ \A k \in DOMAIN list : list[k][1] <= list[k][2]
    /\ \A k \in DOMAIN list : k > 1 => list[k - 1][2] <= list[k][1]

\* C30: change_blocks terminates without error for every pair of series and
\* returns the changed blocks in ascending, non-overlapping order, an empty
\* list when the two series are identical.
C30_ChangeBlocksTerminates ==
    /\ <>(pc = "return")
    /\ [](pc = "return" =>
            /\ BlocksInOrder(ret)
            /\ (args.raw_series = args.changed_series => ret = <<>>))

====
